---------------------------- MODULE Spec2Model ----------------------------
(***************************************************************************)
(* Model of modules/prior_box.py: PriorBox.__init__ and PriorBox._priors.  *)
(*                                                                         *)
(* Numbers.  Python floats are modelled as fixed-point integers: the       *)
(* integer n stands for the real n / Unit.  Sums are exact; products,      *)
(* quotients and square roots round down to the grid.  The narrowing to    *)
(* the tensor's element type made by torch.Tensor is not modelled: a       *)
(* number keeps its value when it moves from the list to the tensor.       *)
(*                                                                         *)
(* Python values.  A list element is either a number or a list, so an      *)
(* element is a record [list, n, items]: Num(n) is the int n, Lst(s) the   *)
(* list whose elements are the sequence s.  The arguments are well typed   *)
(* as the signature annotates them (feature_maps: List[int], scales:       *)
(* List[float], aspect_ratios: List[int] or List[List[int]], variance:     *)
(* List[int]); grid sizes and aspect ratios are positive.                  *)
(***************************************************************************)
EXTENDS Integers, Sequences, FiniteSets

\* ------------------------------------------------------------------ bounds
MaxLevels == 2
MaxGrid == 2
MaxRatios == 2
MaxVariance == 2
Unit == 100

\* ------------------------------------------------------------ input values
Half == Unit \div 2
One == Unit
ScaleValues == {-(Unit \div 5), (3 * Unit) \div 5}
RatioValues == {2, 4}
VarianceValues == {-1, 0, 1}

SeqsUpTo(S, n) == UNION {[1..m -> S] : m \in 0..n}

Num(n) == [list |-> FALSE, n |-> n, items |-> <<>>]
Lst(s) == [list |-> TRUE, n |-> 0, items |-> s]

Min(a, b) == IF a < b THEN a ELSE b
Max(a, b) == IF a > b THEN a ELSE b

\* ------------------------------------------------------- float arithmetic
FMul(a, b) == (a * b) \div Unit
FDiv(a, b) == (a * Unit) \div b
\* math.sqrt on a non-negative argument
Sqrt(x) == CHOOSE r \in 0..Max(x, Unit) : r * r <= x * Unit /\ (r + 1) * (r + 1) > x * Unit
\* int -> float
ToFloat(n) == n * Unit

\* ------------------------------------------------------- Python list access
\* variant: an index past the end wraps around, an empty list yields 0
PyIndexWrap(s, n) ==
    IF Len(s) = 0 THEN [ok |-> TRUE, v |-> 0]
    ELSE [ok |-> TRUE, v |-> s[(n % Len(s)) + 1]]
\* s[n] for a 0-based index n: negative indices count from the end, anything
\* outside -len..len-1 raises IndexError (ok = FALSE).
PyIndex(s, n) ==
    IF n >= 0 /\ n < Len(s) THEN [ok |-> TRUE, v |-> s[n + 1]]
    ELSE IF n < 0 /\ -n <= Len(s) THEN [ok |-> TRUE, v |-> s[Len(s) + n + 1]]
    ELSE [ok |-> FALSE, v |-> 0]

\* ------------------------------------------------- aspect-ratio normalising
\* any(isinstance(e, list) for e in aspect_ratios)
AnyList(ar) == \E n \in 1..Len(ar) : ar[n].list

\* variant: one copy too few
BroadcastShort(ar, L) == [n \in 1..(IF L > 0 THEN L - 1 ELSE 0) |-> Lst(ar)]
\* [aspect_ratios for _ in range(L)]
Broadcast(ar, L) == [n \in 1..L |-> Lst(ar)]

\* variant: the list-of-lists branch without its assert
ShapeNoCheck(ar, L) ==
    IF AnyList(ar) THEN [ok |-> TRUE, table |-> ar]
    ELSE [ok |-> TRUE, table |-> Broadcast(ar, L)]
\* lines 39-43: the assert of the list-of-lists branch, the broadcast of the other
Shape(ar, L) ==
    IF AnyList(ar)
    THEN [ok |-> Len(ar) = L, table |-> ar]
    ELSE [ok |-> TRUE, table |-> Broadcast(ar, L)]

\* variant: all(v > 0 for v in variance)
VarianceOkAll(vs) == \A n \in 1..Len(vs) : vs[n] > 0
\* any(v > 0 for v in variance)
VarianceOk(vs) == \E n \in 1..Len(vs) : vs[n] > 0


\* ------------------------------------------------------------ one grid cell
\* variant: the column varies slowest
CellIJColumnMajor(p, f) == <<p % f, p \div f>>
\* product(range(f), repeat=2): the p-th pair (i, j), 0-based
CellIJ(p, f) == <<p \div f, p % f>>

\* (j + 0.5) / f_k
Centre(j, f) == FDiv(ToFloat(j) + Half, ToFloat(f))

\* variant: the tall box before the wide one
RECURSIVE RatioBoxesTallFirst(_, _, _, _)
RatioBoxesTallFirst(cx, cy, s_k, ars) ==
    IF ars = <<>> THEN <<>>
    ELSE LET r == Sqrt(ToFloat(Head(ars).n))
         IN  <<cx, cy, FDiv(s_k, r), FMul(s_k, r)>>
                 \o <<cx, cy, FMul(s_k, r), FDiv(s_k, r)>>
                 \o RatioBoxesTallFirst(cx, cy, s_k, Tail(ars))
\* variant: the wide box only
RECURSIVE RatioBoxesOneEach(_, _, _, _)
RatioBoxesOneEach(cx, cy, s_k, ars) ==
    IF ars = <<>> THEN <<>>
    ELSE LET r == Sqrt(ToFloat(Head(ars).n))
         IN  <<cx, cy, FMul(s_k, r), FDiv(s_k, r)>>
                 \o RatioBoxesOneEach(cx, cy, s_k, Tail(ars))
\* lines 75-77: two boxes for each aspect ratio, in the order of the list
RECURSIVE RatioBoxes(_, _, _, _)
RatioBoxes(cx, cy, s_k, ars) ==
    IF ars = <<>> THEN <<>>
    ELSE LET r == Sqrt(ToFloat(Head(ars).n))
         IN  <<cx, cy, FMul(s_k, r), FDiv(s_k, r)>>
                 \o <<cx, cy, FDiv(s_k, r), FMul(s_k, r)>>
                 \o RatioBoxes(cx, cy, s_k, Tail(ars))

\* variant: the base scale read one level ahead
BaseIndexOffByOne(k) == k + 1
\* the subscripts of scales: line 65 reads scales[k], line 71 scales[k + 1]
BaseIndex(k) == k
NextIndex(k) == k + 1

\* lines 58-77 for cell p of level k: the numbers appended to mean, the error
\* that ends the cell ("none" when it completes) and the indices at which
\* scales was subscripted.  a is the argument record, table self.aspect_ratios.
CellBoxes(a, table, k, p) ==
    LET f_k == a.feature_maps[k + 1]
        ij == CellIJ(p, f_k)
        cx == Centre(ij[2], f_k)
        cy == Centre(ij[1], f_k)
        r0 == PyIndex(a.scales, BaseIndex(k))
        s_k == r0.v
        base == <<cx, cy, s_k, s_k>>
        r1 == PyIndex(a.scales, NextIndex(k))
        prod == FMul(s_k, r1.v)
        s_k_prime == Sqrt(prod)
        extra == <<cx, cy, s_k_prime, s_k_prime>>
        rest == RatioBoxes(cx, cy, s_k, table[k + 1].items)
    IN  IF ~r0.ok
        THEN [err |-> "IndexError", vals |-> <<>>, reads |-> {BaseIndex(k)}]
        ELSE IF ~a.extra_aspect_ratio
        THEN [err |-> "none", vals |-> base \o rest, reads |-> {BaseIndex(k)}]
        ELSE IF ~r1.ok
        THEN [err |-> "IndexError", vals |-> base, reads |-> {BaseIndex(k), NextIndex(k)}]
        ELSE IF prod < 0
        THEN [err |-> "ValueError", vals |-> base, reads |-> {BaseIndex(k), NextIndex(k)}]
        ELSE [err |-> "none", vals |-> base \o extra \o rest, reads |-> {BaseIndex(k), NextIndex(k)}]

\* ------------------------------------------------------------- the tensor
\* torch.Tensor(mean).view(-1, 4)
View4(mean) ==
    [n \in 1..(Len(mean) \div 4) |->
        <<mean[4 * n - 3], mean[4 * n - 2], mean[4 * n - 1], mean[4 * n]>>]

\* variant: clamp_(max=1)
ClampUpper(v) == Min(v, One)
\* clamp_(max=1, min=0) on one element
Clamp(v) == Min(Max(v, 0), One)

\* lines 80-83
Output(mean, clip) ==
    IF clip
    THEN [n \in 1..Len(View4(mean)) |-> [c \in 1..4 |-> Clamp(View4(mean)[n][c])]]
    ELSE View4(mean)

\* the attribute priors before line 51 assigns it, and after
Unset == [set |-> FALSE, rows |-> <<>>]
Exposed(rows) == [set |-> TRUE, rows |-> rows]

\* --------------------------------------------------- the whole constructor
\* _priors from cell p of level k on, mean holding what earlier cells appended:
\* the loops of lines 56-77 run to their end or to the first error.
RECURSIVE GenFrom(_, _, _, _, _)
GenFrom(a, table, k, p, mean) ==
    IF k >= Len(a.feature_maps) THEN [err |-> "none", mean |-> mean]
    ELSE IF p >= a.feature_maps[k + 1] * a.feature_maps[k + 1]
    THEN GenFrom(a, table, k + 1, 0, mean)
    ELSE LET c == CellBoxes(a, table, k, p)
         IN  IF c.err # "none" THEN [err |-> c.err, mean |-> mean \o c.vals]
             ELSE GenFrom(a, table, k, p + 1, mean \o c.vals)

\* __init__ on the arguments a: where it ends, the exception it raises, and the
\* attributes aspect_ratios and priors it leaves.
Construct(a) ==
    LET sh == Shape(a.aspect_ratios, Len(a.feature_maps))
        g == GenFrom(a, sh.table, 0, 0, <<>>)
    IN  IF ~sh.ok
        THEN [pc |-> "shape", err |-> "AssertionError",
              aspect_ratios |-> a.aspect_ratios, priors |-> Unset]
        ELSE IF ~VarianceOk(a.variance)
        THEN [pc |-> "variance", err |-> "AssertionError",
              aspect_ratios |-> sh.table, priors |-> Unset]
        ELSE IF g.err # "none"
        THEN [pc |-> "gen", err |-> g.err,
              aspect_ratios |-> sh.table, priors |-> Unset]
        ELSE [pc |-> "done", err |-> "none",
              aspect_ratios |-> sh.table, priors |-> Exposed(Output(g.mean, a.clip))]

\* ------------------------------------------------------------ the arguments
Levels == SeqsUpTo(1..MaxGrid, MaxLevels)
ScaleLists == SeqsUpTo(ScaleValues, MaxLevels + 1)
RatioLists == SeqsUpTo({Num(r) : r \in RatioValues}, MaxRatios)
NestedLists == SeqsUpTo({Lst(r) : r \in RatioLists}, MaxLevels) \ {<<>>}
VarianceLists == SeqsUpTo(VarianceValues, MaxVariance)
FullScales(L) == [n \in 1..(L + 1) |-> (3 * Unit) \div 5]

Args(fm, sc, ar, ex, cl, va) ==
    [feature_maps |-> fm, scales |-> sc, aspect_ratios |-> ar,
     extra_aspect_ratio |-> ex, clip |-> cl, variance |-> va]

\* every grid and every scale list, under two shared ratio lists
GeometryArgs ==
    {Args(fm, sc, ar, ex, cl, <<1>>) :
        fm \in Levels, sc \in ScaleLists, ar \in {<<>>, <<Num(2), Num(4)>>},
        ex \in BOOLEAN, cl \in BOOLEAN}
\* every shape of aspect_ratios, flat and nested, under three grids
ShapeArgs ==
    {Args(fm, FullScales(Len(fm)), ar, ex, FALSE, <<1>>) :
        fm \in {<<>>, <<1>>, <<2, 1>>}, ar \in RatioLists \cup NestedLists,
        ex \in BOOLEAN}
\* every variance, under a flat and a misshaped nested aspect_ratios
VarianceArgs ==
    {Args(<<1>>, FullScales(1), ar, FALSE, TRUE, va) :
        ar \in {<<Num(2)>>, <<Lst(<<>>), Lst(<<>>)>>}, va \in VarianceLists}

\* ------------------------------------------------------------------- state
VARIABLES
    args,           \* the constructor's arguments
    aspect_ratios,  \* self.aspect_ratios
    pc,             \* position in __init__: "shape", "variance", "gen", "done"
    err,            \* the exception that ended __init__, "none" while it runs
    k,              \* level index of the loop of line 56
    p,              \* cell index of the loop of line 57 within level k
    mean,           \* the local list of _priors
    priors,         \* self.priors
    reads           \* indices at which scales has been subscripted

vars == <<args, aspect_ratios, pc, err, k, p, mean, priors, reads>>

L == Len(args.feature_maps)

Init ==
    /\ args \in GeometryArgs \cup ShapeArgs \cup VarianceArgs
    /\ aspect_ratios = args.aspect_ratios
    /\ pc = "shape"
    /\ err = "none"
    /\ k = 0
    /\ p = 0
    /\ mean = <<>>
    /\ priors = Unset
    /\ reads = {}

\* lines 39-44
ShapeCheck ==
    /\ pc = "shape" /\ err = "none"
    /\ LET sh == Shape(aspect_ratios, L)
       IN  IF sh.ok
           THEN /\ aspect_ratios' = sh.table
                /\ pc' = "variance"
                /\ err' = err
           ELSE /\ err' = "AssertionError"
                /\ UNCHANGED <<aspect_ratios, pc>>
    /\ UNCHANGED <<args, k, p, mean, priors, reads>>

\* lines 46-49
VarianceCheck ==
    /\ pc = "variance" /\ err = "none"
    /\ IF VarianceOk(args.variance)
       THEN pc' = "gen" /\ err' = err
       ELSE err' = "AssertionError" /\ pc' = pc
    /\ UNCHANGED <<args, aspect_ratios, k, p, mean, priors, reads>>

\* lines 56-77: one iteration of the loop over the cells
GenCell ==
    /\ pc = "gen" /\ err = "none"
    /\ k < L
    /\ LET c == CellBoxes(args, aspect_ratios, k, p)
           f == args.feature_maps[k + 1]
       IN  /\ mean' = mean \o c.vals
           /\ reads' = reads \cup c.reads
           /\ err' = c.err
           /\ IF c.err # "none" THEN UNCHANGED <<k, p>>
              ELSE IF p + 1 < f * f THEN p' = p + 1 /\ k' = k
              ELSE p' = 0 /\ k' = k + 1
    /\ UNCHANGED <<args, aspect_ratios, pc, priors>>

\* variant: the return of line 83 inside the loop over the levels
FinishEarly ==
    /\ pc = "gen" /\ err = "none"
    /\ (k = L \/ (k >= 1 /\ p = 0))
    /\ priors' = Exposed(Output(mean, args.clip))
    /\ pc' = "done"
    /\ UNCHANGED <<args, aspect_ratios, err, k, p, mean, reads>>
\* lines 79-83 and the assignment of line 51
Finish ==
    /\ pc = "gen" /\ err = "none"
    /\ k = L
    /\ priors' = Exposed(Output(mean, args.clip))
    /\ pc' = "done"
    /\ UNCHANGED <<args, aspect_ratios, err, k, p, mean, reads>>

Next == ShapeCheck \/ VarianceCheck \/ GenCell \/ Finish

Spec == Init /\ [][Next]_vars

\* ================================================================== claims
\* The aspect ratios the arguments give to level lv (0-based): the lv-th inner
\* list of a list-of-lists, the whole list of a flat one.
LevelRatios(lv) ==
    IF AnyList(args.aspect_ratios)
    THEN args.aspect_ratios[lv + 1].items
    ELSE args.aspect_ratios

\* B_k = 1 + (1 if extra_aspect_ratio else 0) + 2 * |aspect_ratios[k]|
PerCell(lv) ==
    1 + (IF args.extra_aspect_ratio THEN 1 ELSE 0) + 2 * Len(LevelRatios(lv))

\* the number of boxes of the levels 0..n-1
RECURSIVE TotalBoxes(_)
TotalBoxes(n) ==
    IF n = 0 THEN 0
    ELSE TotalBoxes(n - 1)
            + args.feature_maps[n] * args.feature_maps[n] * PerCell(n - 1)

\* the output row of box b (1-based) of cell c (0-based) of level lv (0-based)
RowOf(lv, c, b) == priors.rows[TotalBoxes(lv) + c * PerCell(lv) + b]

CentreOf(n, f) == (((n * Unit) + Half) * Unit) \div (f * Unit)

\* C2: in the output the levels follow each other in ascending order, the cells
\* of a level in row-major order, the B_k boxes of a cell are contiguous, and
\* every box of the p-th cell of a level of grid size f has cx = (p mod f + 0.5)
\* / f and cy = (p div f + 0.5) / f.
C2_RowMajorOrder ==
    pc = "done" =>
        \A lv \in 0..(L - 1) :
            LET f == args.feature_maps[lv + 1]
            IN  \A c \in 0..(f * f - 1) : \A b \in 1..PerCell(lv) :
                    /\ RowOf(lv, c, b)[1] = CentreOf(c % f, f)
                    /\ RowOf(lv, c, b)[2] = CentreOf(c \div f, f)

C2_Witness ==
    /\ pc = "done" /\ L = 2
    /\ args.feature_maps = <<2, 1>>
    /\ RowOf(0, 1, 1)[1] # RowOf(0, 1, 1)[2]
    /\ RowOf(0, 1, 1)[1] > RowOf(0, 2, 1)[1]

\* the value the output holds for a computed value v
Held(v) == IF args.clip THEN (IF v < 0 THEN 0 ELSE IF v > One THEN One ELSE v) ELSE v

\* width and height of box b (1-based) of a cell of level lv, as the claim
\* orders the kinds: base square, extra square, then wide and tall per ratio
KindWH(lv, b) ==
    LET s == args.scales[lv + 1]
        e == IF args.extra_aspect_ratio THEN 1 ELSE 0
        m == b - 2 - e
        r == Sqrt(ToFloat(LevelRatios(lv)[(m \div 2) + 1].n))
    IN  IF b = 1 THEN <<s, s>>
        ELSE IF b = 2 /\ args.extra_aspect_ratio
        THEN <<Sqrt(FMul(s, args.scales[lv + 2])), Sqrt(FMul(s, args.scales[lv + 2]))>>
        ELSE IF m % 2 = 0 THEN <<FMul(s, r), FDiv(s, r)>>
        ELSE <<FDiv(s, r), FMul(s, r)>>

\* C3: within every cell the boxes come in the order base square (w = h =
\* scales[k]), then the extra square exactly when extra_aspect_ratio is set,
\* then for each aspect ratio in the order given the wide box immediately
\* followed by the tall one (each value clamped when clip is set).
C3_KindOrder ==
    pc = "done" =>
        \A lv \in 0..(L - 1) :
            LET f == args.feature_maps[lv + 1]
            IN  \A c \in 0..(f * f - 1) : \A b \in 1..PerCell(lv) :
                    /\ RowOf(lv, c, b)[3] = Held(KindWH(lv, b)[1])
                    /\ RowOf(lv, c, b)[4] = Held(KindWH(lv, b)[2])

C3_Witness ==
    /\ pc = "done" /\ L = 2 /\ args.extra_aspect_ratio /\ ~args.clip
    /\ LevelRatios(0) = <<Num(4), Num(2)>>
    /\ LevelRatios(1) = <<Num(2)>>
    /\ RowOf(0, 0, 3)[3] > RowOf(0, 0, 3)[4]
    /\ RowOf(0, 0, 4)[3] < RowOf(0, 0, 4)[4]
    /\ RowOf(0, 0, 3)[3] > RowOf(0, 0, 5)[3]

\* the constructor's two checks have passed and _priors has been entered
Generating == pc \in {"gen", "done"}

\* extra_aspect_ratio is set and scales has fewer than L + 1 entries
ShortScales == args.extra_aspect_ratio /\ Len(args.scales) < L + 1

\* C4 as stated: with extra_aspect_ratio set and fewer than L + 1 scales,
\* generation never yields a priors sequence and can only end in an index
\* error.
C4_AlwaysIndexError ==
    (ShortScales /\ Generating) =>
        /\ pc # "done"
        /\ ~priors.set
        /\ err \in {"none", "IndexError"}

\* level lv (0-based) has both its scales but their product is negative
NegativeProduct(lv) ==
    /\ lv + 2 <= Len(args.scales)
    /\ FMul(args.scales[lv + 1], args.scales[lv + 2]) < 0

\* C4 amended: with at least one level, extra_aspect_ratio set and fewer than
\* L + 1 scales, generation never yields a priors sequence and never puts a
\* wrapped-around or default scale in place of a missing one (at the level
\* whose scale is missing nothing beyond the base box of its first cell is
\* accumulated); it ends in the index error on scales, unless the negative
\* product of the two scales of an earlier level makes sqrt raise its domain
\* error first.
C4_ShortScalesFail ==
    (ShortScales /\ Generating /\ L >= 1) =>
        /\ pc # "done"
        /\ ~priors.set
        /\ k < L
        /\ k + 2 > Len(args.scales) =>
                /\ p = 0
                /\ Len(mean) <= 4 * TotalBoxes(k) + 4
                /\ err \in {"none", "IndexError"}
                /\ \A lv \in 0..(k - 1) : ~NegativeProduct(lv)
        /\ err = "IndexError" => k + 2 > Len(args.scales)
        /\ err = "ValueError" => NegativeProduct(k)
        /\ err \in {"none", "IndexError", "ValueError"}

C4_Witness ==
    /\ ShortScales /\ pc = "gen" /\ err = "IndexError"
    /\ L = 2 /\ Len(args.scales) = 2 /\ k = 1
    /\ Len(mean) = 4 * TotalBoxes(1) + 4
    /\ reads = {0, 1, 2}

\* C5: without extra_aspect_ratio scales is never subscripted at L or beyond
\* (a complete run reads exactly the indices 0..L-1), so with exactly L scales
\* generation raises no index error, runs without any error and yields the
\* complete sequence.
C5_NoReadPastLast ==
    /\ ~args.extra_aspect_ratio =>
            /\ \A n \in reads : n >= 0 /\ n <= L - 1
            /\ pc = "done" => reads = 0..(L - 1)
    /\ (~args.extra_aspect_ratio /\ Len(args.scales) = L) =>
            /\ err # "IndexError"
            /\ pc = "gen" => err = "none"
            /\ pc = "done" => priors.set /\ Len(priors.rows) = TotalBoxes(L)

C5_Witness ==
    /\ ~args.extra_aspect_ratio /\ Len(args.scales) = L /\ L = 2
    /\ pc = "done" /\ reads = {0, 1}
    /\ Len(priors.rows) = TotalBoxes(2)

\* C6: with clip set every coordinate of every output box lies in [0, 1]: a
\* computed value below 0 is held as 0, one above 1 as 1, one in [0, 1]
\* unchanged; without clip the output holds every value as computed.
C6_Clip ==
    pc = "done" =>
        /\ 4 * Len(priors.rows) = Len(mean)
        /\ \A n \in 1..Len(priors.rows) : \A c \in 1..4 :
              LET v == mean[4 * (n - 1) + c]
                  o == priors.rows[n][c]
              IN  IF args.clip
                  THEN /\ o >= 0 /\ o <= One
                       /\ v < 0 => o = 0
                       /\ v > One => o = One
                       /\ (v >= 0 /\ v <= One) => o = v
                  ELSE o = v

C6_Witness ==
    /\ pc = "done" /\ args.clip
    /\ \E n \in 1..Len(mean) : mean[n] < 0
    /\ \E n \in 1..Len(mean) : mean[n] > One
    /\ \E n \in 1..Len(priors.rows) : priors.rows[n][3] = 0 /\ priors.rows[n][4] = 0
    /\ \E n \in 1..Len(priors.rows) : priors.rows[n][3] = One /\ priors.rows[n][4] < One

\* the arguments with aspect_ratios replaced by the list-of-lists that repeats
\* the given flat list once per level
Repeated == [args EXCEPT !.aspect_ratios = [n \in 1..L |-> Lst(args.aspect_ratios)]]

\* C7: a run on a flat aspect-ratio list A has the per-level table, the outcome
\* and the output sequence that construction has on the list-of-lists made of
\* A repeated L times, all other arguments being equal.
C7_BroadcastEquivalence ==
    ~AnyList(args.aspect_ratios) =>
        /\ pc # "shape" =>
                /\ Shape(Repeated.aspect_ratios, L).ok
                /\ aspect_ratios = Shape(Repeated.aspect_ratios, L).table
        /\ (pc = "done" \/ err # "none") =>
                Construct(Repeated) =
                    [pc |-> pc, err |-> err,
                     aspect_ratios |-> aspect_ratios, priors |-> priors]

C7_Witness ==
    /\ ~AnyList(args.aspect_ratios) /\ Len(args.aspect_ratios) = 2 /\ L = 2
    /\ AnyList(Repeated.aspect_ratios)
    /\ pc = "done"
    /\ priors = Construct(Repeated).priors
    /\ Len(priors.rows) = TotalBoxes(2)

\* aspect_ratios is a list-of-lists whose length is not the number of levels
Misshaped ==
    /\ \E n \in 1..Len(args.aspect_ratios) : args.aspect_ratios[n].list
    /\ Len(args.aspect_ratios) # L

\* C8: on a list-of-lists whose length differs from the number of levels
\* construction never gets past the shape check, where it fails with the
\* assertion's error: no box is computed, scales is never read and priors is
\* never exposed.
C8_ShapeFailsEarly ==
    Misshaped =>
        /\ pc = "shape"
        /\ err \in {"none", "AssertionError"}
        /\ mean = <<>>
        /\ reads = {}
        /\ ~priors.set
        /\ aspect_ratios = args.aspect_ratios

C8_Witness ==
    /\ Misshaped /\ pc = "shape" /\ err = "AssertionError"
    /\ L = 2 /\ Len(args.aspect_ratios) = 1
    /\ VarianceOk(args.variance)

\* variance has no strictly positive entry
NoPositive == \A n \in 1..Len(args.variance) : args.variance[n] <= 0

\* C9: when variance has no strictly positive entry (an empty variance
\* included) construction fails with the assertion's error before generation
\* starts, at the variance check whenever the shape check before it passes,
\* and no priors are produced; a variance with a strictly positive entry
\* never fails the variance check, whatever its other entries are.
C9_VarianceCheck ==
    /\ NoPositive =>
            /\ pc \in {"shape", "variance"}
            /\ err \in {"none", "AssertionError"}
            /\ (pc = "shape" /\ err # "none") => Misshaped
            /\ mean = <<>>
            /\ ~priors.set
    /\ ~NoPositive => ~(pc = "variance" /\ err # "none")

C9_Witness ==
    /\ NoPositive /\ Len(args.variance) = 2 /\ args.variance[1] = 0
    /\ pc = "variance" /\ err = "AssertionError"
    /\ ~priors.set

\* C10: priors is exposed only by a run that completed without error, and then
\* it holds every box of every level (clamped when clip is set); a run that
\* ended in an error exposes nothing, whatever it had accumulated.
C10_AllOrNothing ==
    /\ priors.set <=> pc = "done"
    /\ err # "none" => ~priors.set /\ pc # "done"
    /\ pc = "done" =>
            /\ err = "none"
            /\ k = L
            /\ Len(priors.rows) = TotalBoxes(L)
            /\ Len(mean) = 4 * TotalBoxes(L)
            /\ \A n \in 1..Len(priors.rows) : \A c \in 1..4 :
                    priors.rows[n][c] = Held(mean[4 * (n - 1) + c])

C10_Witness ==
    /\ pc = "gen" /\ err \in {"IndexError", "ValueError"}
    /\ k = 1 /\ Len(mean) > 4 * TotalBoxes(1)
    /\ ~priors.set

=============================================================================
